---- MODULE Spec2Model ----
(***************************************************************************)
(* Lucky for Life analyzer: draw statistics, strategy recommendations and  *)
(* the walk-forward backtest of src/lucky_for_life_analyzer.py.            *)
(*                                                                         *)
(* A DataFrame is modelled as [off, rows]: rows is the sequence of draws   *)
(* in positional (iloc) order and off is the index label of the first row, *)
(* so the row at position p (1-based) carries label off + p - 1.  The      *)
(* loaded history has off = 0 (reset_index); a slice df.iloc[k:] keeps the *)
(* labels of its rows, i.e. off = k.                                       *)
(*                                                                         *)
(* Floats: an average gap is the exact rational <<sum, len>>; a threshold  *)
(* and a reported ratio are integers in hundredths, a reported average in  *)
(* tenths.  Comparisons are exact; money is in whole dollars.              *)
(***************************************************************************)
EXTENDS Integers, Sequences, FiniteSets, TLC

(* ---------------------------------------------------------------- ranges *)

\* range(1, 49): the main numbers are 1..MainMax
MainMax == 48

\* range(1, 19): the lucky balls are 1..LuckyMax
LuckyMax == 18

\* for i in range(1, 6): the columns 'Number 1' .. 'Number 5'
NumbersPerDraw == 5

\* recent_analysis(self, last_n_draws=50)
RecentWindow == 50

\* if len(historical_data) < 50: continue
MinHistory == 50

\* get_overdue_numbers(self, threshold_multiplier=1.5), in hundredths
DefaultThreshold == 150

main_numbers_range == 1..MainMax

lucky_ball_range == 1..LuckyMax

(* ---------------------------------------------------------------- bounds *)

\* longest history enumerated draw by draw
MaxDraws == 5

\* draws enumerated in front of the long tail of a history that the backtest can simulate
MaxHead == 2

\* largest lookback_draws passed to backtest_strategies
MaxLookback == 3

\* largest last_n_draws passed to recent_analysis
MaxRecentArg == 3

\* the longest record list handed to the constructor unchecked
MaxRawDraws == 2

\* the most tickets saved to one ticket file
MaxSaved == 2

(* --------------------------------------------------------------- helpers *)

Min(a, b) == IF a <= b THEN a ELSE b

Abs(x) == IF x < 0 THEN -x ELSE x

Range(s) == {s[k] : k \in DOMAIN s}

\* s[:n]
Take(s, n) == SubSeq(s, 1, Min(n, Len(s)))

\* s[n:]
Drop(s, n) == SubSeq(s, Min(n, Len(s)) + 1, Len(s))

\* s[lo] + ... + s[hi], the range split in halves to keep the evaluation shallow
RECURSIVE SumRange(_, _, _)
SumRange(s, lo, hi) ==
    IF lo > hi THEN 0
    ELSE IF lo = hi THEN s[lo]
    ELSE LET mid == (lo + hi) \div 2
         IN  SumRange(s, lo, mid) + SumRange(s, mid + 1, hi)

\* sum(s)
SumSeq(s) == SumRange(s, 1, Len(s))

\* [f(x) for x in s] where the items are pairs and f takes the first component
Firsts(s) == [k \in 1..Len(s) |-> s[k][1]]

(* ------------------------------------------------------- the draw history *)

Draw(nums, lb) == [nums |-> nums, lb |-> lb]

\* The three draws of the test fixture (tests/test_analyzer.py).
Pool ==
    << Draw(<<3, 10, 22, 32, 38>>, 11),
       Draw(<<6, 9, 28, 41, 45>>, 8),
       Draw(<<5, 17, 22, 42, 48>>, 16) >>

\* The j-th (0-based) draw of the long tail: four numbers drawn every time, one per
\* quarter of the range, and a fifth that is 6 at j = 1 and j = 3 and otherwise walks
\* through the 39 numbers of 7..48 other than 13, 25, 37.
TailFifth(j) ==
    IF j \in {1, 3} THEN 6
    ELSE LET i == j % 39
         IN  IF 7 + i < 13 THEN 7 + i
             ELSE IF 8 + i < 25 THEN 8 + i
             ELSE IF 9 + i < 37 THEN 9 + i
             ELSE 10 + i

TailDraw(j) == Draw(<<1, 13, 25, 37, TailFifth(j)>>, (j % LuckyMax) + 1)

LongTail(m) == [k \in 1..m |-> TailDraw(k - 1)]

RECURSIVE SeqsUpTo(_, _)
SeqsUpTo(S, n) ==
    IF n = 0 THEN {<< >>}
    ELSE LET shorter == SeqsUpTo(S, n - 1)
         IN  shorter \cup {Append(s, x) : s \in {t \in shorter : Len(t) = n - 1}, x \in S}

\* Tail lengths around the minimum-history floor of the backtest.
TailLengths == {MinHistory - 1, MinHistory}

\* A history of 19 draws in which six numbers are overdue at the default threshold:
\* 45..48 (drawn in the two oldest draws), 1 (labels 1, 8, 18: ratio 36/17) and
\* 2 (labels 9, 17: ratio 17/8); the two ratios differ and round to the same hundredth.
RoundingTie ==
    << Draw(<<3, 4, 5, 6, 41>>, 1),
       Draw(<<1, 7, 8, 9, 10>>, 2),
       Draw(<<11, 12, 13, 14, 15>>, 3),
       Draw(<<16, 17, 18, 19, 20>>, 4),
       Draw(<<21, 22, 23, 24, 25>>, 5),
       Draw(<<26, 27, 28, 29, 30>>, 6),
       Draw(<<31, 32, 33, 34, 35>>, 7),
       Draw(<<36, 37, 38, 39, 40>>, 8),
       Draw(<<1, 41, 42, 43, 44>>, 9),
       Draw(<<2, 3, 4, 5, 6>>, 10),
       Draw(<<7, 8, 9, 10, 41>>, 11),
       Draw(<<11, 12, 13, 14, 15>>, 12),
       Draw(<<16, 17, 18, 19, 20>>, 13),
       Draw(<<21, 22, 23, 24, 25>>, 14),
       Draw(<<26, 27, 28, 29, 30>>, 15),
       Draw(<<31, 32, 33, 34, 35>>, 16),
       Draw(<<36, 37, 38, 39, 40>>, 17),
       Draw(<<2, 45, 46, 47, 48>>, 18),
       Draw(<<1, 45, 46, 47, 48>>, 1) >>

\* The contents of the histories that are loaded: every sequence of up to MaxDraws pool
\* draws, every sequence of up to MaxHead pool draws followed by a long tail, and the
\* history with the two close overdue ratios.
Contents ==
    SeqsUpTo(Range(Pool), MaxDraws)
    \cup {h \o LongTail(m) : h \in SeqsUpTo(Range(Pool), MaxHead), m \in TailLengths}
    \cup {RoundingTie}

\* __init__: the rows sorted by date descending with a fresh index 0..N-1.  Draw days are
\* two apart, so every odd day has no drawing.
Row(d, date) == [date |-> date, nums |-> d.nums, lb |-> d.lb]

Load(content) ==
    [off |-> 0,
     rows |-> [p \in 1..Len(content) |-> Row(content[p], 2 * (Len(content) - p + 1))]]

\* len(df)
Size(d) == Len(d.rows)

\* the index label iterrows() yields for the row at position p (1-based)
Label(d, p) == d.off + p - 1

\* df.head(n), n >= 0
HeadDf(d, n) == [off |-> d.off, rows |-> Take(d.rows, n)]

\* df.iloc[k:].copy(): the rows keep their index labels
ILocFrom(d, k) == [off |-> d.off + Min(k, Size(d)), rows |-> Drop(d.rows, k)]

(* ------------------------------------------------------------- Counter() *)
\* A Counter is the sequence of its items <<key, count>> in insertion order.

KeyPos(c, key) == CHOOSE k \in DOMAIN c : c[k][1] = key

HasKey(c, key) == \E k \in DOMAIN c : c[k][1] = key

\* c[key] += 1
Inc(c, key) ==
    IF HasKey(c, key)
    THEN [c EXCEPT ![KeyPos(c, key)] = <<key, @[2] + 1>>]
    ELSE Append(c, <<key, 1>>)

\* c[key], 0 for a missing key
Get(c, key) == IF HasKey(c, key) THEN c[KeyPos(c, key)][2] ELSE 0

RECURSIVE IncAll(_, _, _)
IncAll(c, nums, i) ==
    IF i = 0 THEN c ELSE Inc(IncAll(c, nums, i - 1), nums[i])

\* "for _, row in df.iterrows()" over the rows lo..hi, in order, starting from counter c.
\* The range is split in halves only to keep the evaluation shallow: every row is still
\* visited once, in positional order, with the counter threaded through.  (The test on
\* Len(left) makes the first half be computed before the second half starts.)
RECURSIVE CountMain(_, _, _, _)
CountMain(c, rows, lo, hi) ==
    IF lo > hi THEN c
    ELSE IF lo = hi THEN IncAll(c, rows[lo].nums, NumbersPerDraw)
    ELSE LET mid == (lo + hi) \div 2
             left == CountMain(c, rows, lo, mid)
         IN  IF Len(left) >= 0 THEN CountMain(left, rows, mid + 1, hi) ELSE left

RECURSIVE CountLucky(_, _, _, _)
CountLucky(c, rows, lo, hi) ==
    IF lo > hi THEN c
    ELSE IF lo = hi THEN Inc(c, rows[lo].lb)
    ELSE LET mid == (lo + hi) \div 2
             left == CountLucky(c, rows, lo, mid)
         IN  IF Len(left) >= 0 THEN CountLucky(left, rows, mid + 1, hi) ELSE left

\* sum(c.values())
Total(c) == SumSeq([k \in 1..Len(c) |-> c[k][2]])

\* A stable sort inserts the items one by one, in their original order, each after the
\* items already placed that do not sort behind it.

\* insert item e into s, sorted by descending value: after every item of value >= e's
InsertDesc(s, e) ==
    LET p == Cardinality({k \in DOMAIN s : s[k][2] >= e[2]})
    IN  SubSeq(s, 1, p) \o <<e>> \o SubSeq(s, p + 1, Len(s))

\* insert the items lo..hi, in order, into the sorted sequence acc
RECURSIVE SortDesc(_, _, _, _)
SortDesc(acc, items, lo, hi) ==
    IF lo > hi THEN acc
    ELSE IF lo = hi THEN InsertDesc(acc, items[lo])
    ELSE LET mid == (lo + hi) \div 2
             left == SortDesc(acc, items, lo, mid)
         IN  IF Len(left) >= 0 THEN SortDesc(left, items, mid + 1, hi) ELSE left

\* insert item e into s, sorted by ascending value: after every item of value <= e's
InsertAsc(s, e) ==
    LET p == Cardinality({k \in DOMAIN s : s[k][2] <= e[2]})
    IN  SubSeq(s, 1, p) \o <<e>> \o SubSeq(s, p + 1, Len(s))

RECURSIVE SortAsc(_, _, _, _)
SortAsc(acc, items, lo, hi) ==
    IF lo > hi THEN acc
    ELSE IF lo = hi THEN InsertAsc(acc, items[lo])
    ELSE LET mid == (lo + hi) \div 2
             left == SortAsc(acc, items, lo, mid)
         IN  IF Len(left) >= 0 THEN SortAsc(left, items, mid + 1, hi) ELSE left

\* sorted(items, key=lambda x: x[1], reverse=True) over items <<key, value>>: stable,
\* items of equal value keep their order
SortedByValueDesc(items) == SortDesc(<< >>, items, 1, Len(items))

\* sorted(items, key=lambda x: x[1]): stable
SortedByValueAsc(items) == SortAsc(<< >>, items, 1, Len(items))

\* Counter.most_common(n): the n items of largest count, first-inserted first among equals
most_common(c, n) == Take(SortedByValueDesc(c), n)

\* max(items, key=lambda x: x[1]) of a non-empty item list: the first item of maximal key
MaxItem(items) == Head(SortedByValueDesc(items))

(* ---------------------------------------------------- frequency_analysis *)

frequency_analysis(d) ==
    [main |-> CountMain(<< >>, d.rows, 1, Size(d)),
     lucky |-> CountLucky(<< >>, d.rows, 1, Size(d))]

\* the window forgotten: the counts of the whole history
recent_analysis_all(d, last_n_draws) == frequency_analysis(d)

recent_analysis(d, last_n_draws) == frequency_analysis(HeadDf(d, last_n_draws))

(* ----------------------------------------------------------- gap_analysis *)

\* one pass of the inner loop "for num in numbers_in_draw" with idx the row's label
GapVisit(st, num, idx) ==
    [last_seen |->
        IF num \in DOMAIN st.last_seen
        THEN [st.last_seen EXCEPT ![num] = idx]
        ELSE st.last_seen @@ (num :> idx),
     gaps |->
        IF num \in DOMAIN st.last_seen
        THEN IF num \in DOMAIN st.gaps
             THEN [st.gaps EXCEPT ![num] = Append(@, idx - st.last_seen[num])]
             ELSE st.gaps @@ (num :> <<idx - st.last_seen[num]>>)
        ELSE st.gaps]

RECURSIVE GapVisitAll(_, _, _, _)
GapVisitAll(st, nums, i, idx) ==
    IF i = 0 THEN st ELSE GapVisit(GapVisitAll(st, nums, i - 1, idx), nums[i], idx)

\* "for idx, row in self.df.iterrows()" over the rows lo..hi, in order, from state st
RECURSIVE GapScan(_, _, _, _)
GapScan(st, d, lo, hi) ==
    IF lo > hi THEN st
    ELSE IF lo = hi THEN GapVisitAll(st, d.rows[lo].nums, NumbersPerDraw, Label(d, lo))
    ELSE LET mid == (lo + hi) \div 2
             left == GapScan(st, d, lo, mid)
         IN  IF left.gaps = left.gaps THEN GapScan(left, d, mid + 1, hi) ELSE left

\* float('inf') as a rational
Infinity == <<1, 0>>

IsFinite(avg) == avg[2] # 0

\* np.mean(gap_list) as the exact rational <<sum, len>>
Mean(gap_list) == <<SumSeq(gap_list), Len(gap_list)>>

gap_analysis(d) ==
    LET st == GapScan([last_seen |-> << >>, gaps |-> << >>], d, 1, Size(d))
    IN  [avg_gaps |->
            [num \in DOMAIN st.gaps |->
                IF st.gaps[num] # << >> THEN Mean(st.gaps[num]) ELSE Infinity],
         current_gap |->
            [num \in main_numbers_range |->
                IF num \in DOMAIN st.last_seen THEN 0 - st.last_seen[num] ELSE Size(d)]]

(* ---------------------------------------------------- get_overdue_numbers *)

\* p / q rounded to the nearest multiple of 1 / scale, an exact half to the even one
RoundScaled(p, q, scale) ==
    LET x == p * scale
        fl == x \div q
        rem == x % q
    IN  IF 2 * rem < q THEN fl
        ELSE IF 2 * rem > q THEN fl + 1
        ELSE IF fl % 2 = 0 THEN fl ELSE fl + 1

\* round(avg, 1), in tenths
RoundAvg(avg) == RoundScaled(avg[1], avg[2], 10)

\* round(current / avg, 2), in hundredths
RoundRatio(current, avg) == RoundScaled(current * avg[2], avg[1], 100)

\* the comparison written with >= instead of >
IsOverdueOrEqual(current, avg, threshold) ==
    IsFinite(avg) /\ current * avg[2] * 100 >= avg[1] * threshold

\* current > avg * threshold_multiplier, the threshold in hundredths
IsOverdue(current, avg, threshold) ==
    IsFinite(avg) /\ current * avg[2] * 100 > avg[1] * threshold

\* the body of "for num in self.main_numbers_range" on the dict overdue, kept as its
\* items in insertion order
OverdueVisit(overdue, ga, threshold, num) ==
    IF num \in DOMAIN ga.avg_gaps /\ num \in DOMAIN ga.current_gap
    THEN LET avg == ga.avg_gaps[num]
             current == Abs(ga.current_gap[num])
         IN  IF IsOverdue(current, avg, threshold)
             THEN Append(overdue, <<num, [current_gap |-> current,
                                          avg_gap |-> RoundAvg(avg),
                                          ratio |-> RoundRatio(current, avg)]>>)
             ELSE overdue
    ELSE overdue

\* the loop over the numbers lo..hi, in order
RECURSIVE OverdueScan(_, _, _, _, _)
OverdueScan(overdue, ga, threshold, lo, hi) ==
    IF lo > hi THEN overdue
    ELSE IF lo = hi THEN OverdueVisit(overdue, ga, threshold, lo)
    ELSE LET mid == (lo + hi) \div 2
             left == OverdueScan(overdue, ga, threshold, lo, mid)
         IN  IF Len(left) >= 0 THEN OverdueScan(left, ga, threshold, mid + 1, hi) ELSE left

get_overdue_numbers(d, threshold_multiplier) ==
    OverdueScan(<< >>, gap_analysis(d), threshold_multiplier, 1, MainMax)

(* ------------------------------------------------ generate_recommendations *)

Strategies == {"hot", "cold", "overdue", "recent_hot", "jackpot_spread", "balanced"}

\* a name no branch of generate_recommendations tests for (tests/test_analyzer.py)
UnknownStrategy == "invalid_strategy"

StrategyNames == Strategies \cup {UnknownStrategy}

\* the dict returned, or the exception that leaves the call
Recommendation(main, lucky, why) ==
    [error |-> "none", main_numbers |-> main, lucky_ball |-> lucky, reasoning |-> why]

Raise(e) == [error |-> e, main_numbers |-> << >>, lucky_ball |-> << >>, reasoning |-> ""]

\* _get_overdue_lucky_ball: the first label at which each lucky ball is seen, in
\* insertion order
\* the label recorded at every appearance, not only the first
RECURSIVE LastSeenLucky(_, _, _, _)
LastSeenLucky(seen, d, lo, hi) ==
    IF lo > hi THEN seen
    ELSE IF lo = hi
         THEN IF HasKey(seen, d.rows[lo].lb)
              THEN [seen EXCEPT ![KeyPos(seen, d.rows[lo].lb)] = <<d.rows[lo].lb, Label(d, lo)>>]
              ELSE Append(seen, <<d.rows[lo].lb, Label(d, lo)>>)
    ELSE LET mid == (lo + hi) \div 2
             left == LastSeenLucky(seen, d, lo, mid)
         IN  IF Len(left) >= 0 THEN LastSeenLucky(left, d, mid + 1, hi) ELSE left

RECURSIVE FirstSeenLucky(_, _, _, _)
FirstSeenLucky(seen, d, lo, hi) ==
    IF lo > hi THEN seen
    ELSE IF lo = hi
         THEN IF HasKey(seen, d.rows[lo].lb) THEN seen
              ELSE Append(seen, <<d.rows[lo].lb, Label(d, lo)>>)
    ELSE LET mid == (lo + hi) \div 2
             left == FirstSeenLucky(seen, d, lo, mid)
         IN  IF Len(left) >= 0 THEN FirstSeenLucky(left, d, mid + 1, hi) ELSE left

AbsItems(items) == [k \in 1..Len(items) |-> <<items[k][1], Abs(items[k][2])>>]

\* max(last_seen.items(), key=lambda x: abs(x[1]))[0]; the history is not empty
get_overdue_lucky_ball(d) == MaxItem(AbsItems(FirstSeenLucky(<< >>, d, 1, Size(d))))[1]

\* {n: main_freq[n] for n in range(lo, hi + 1) if n in main_freq}.items()
RECURSIVE RangeItems(_, _, _)
RangeItems(c, lo, hi) ==
    IF hi < lo THEN << >>
    ELSE LET prev == RangeItems(c, lo, hi - 1)
         IN  IF HasKey(c, hi) THEN Append(prev, <<hi, Get(c, hi)>>) ELSE prev

\* sorted(nums) for a list of numbers
SortedNums(nums) == Firsts(SortedByValueAsc([k \in 1..Len(nums) |-> <<nums[k], nums[k]>>]))

\* [n for n in candidates if n not in selected]
NotIn(candidates, selected) ==
    LET Fresh(n) == n \notin Range(selected)
    IN  SelectSeq(candidates, Fresh)

\* <<num, ratio>> for the items of the overdue dict
RatioItems(overdue) == [k \in 1..Len(overdue) |-> <<overdue[k][1], overdue[k][2].ratio>>]

\* sorted(overdue.items(), key=lambda x: x[1]['ratio'], reverse=True), as the numbers
OverdueSorted(overdue) == Firsts(SortedByValueDesc(RatioItems(overdue)))

\* the counter read in insertion order instead of by count
RecHotFirstSeen(main_freq, lucky_freq) ==
    IF lucky_freq = << >> THEN Raise("IndexError")
    ELSE Recommendation(Take(Firsts(Take(main_freq, 10)), 5),
                        <<lucky_freq[1][1]>>,
                        "Hot numbers: Most frequently drawn overall")

RecHot(main_freq, lucky_freq) ==
    IF lucky_freq = << >> THEN Raise("IndexError")
    ELSE Recommendation(Take(Firsts(most_common(main_freq, 10)), 5),
                        <<most_common(lucky_freq, 1)[1][1]>>,
                        "Hot numbers: Most frequently drawn overall")

RecCold(main_freq, lucky_freq) ==
    IF lucky_freq = << >> THEN Raise("IndexError")
    ELSE Recommendation(Take(Firsts(Take(SortedByValueAsc(main_freq), 10)), 5),
                        <<SortedByValueAsc(lucky_freq)[1][1]>>,
                        "Cold numbers: Least frequently drawn")

RecOverdue(d, overdue) ==
    IF Size(d) = 0 THEN Raise("ValueError")
    ELSE Recommendation(Take(OverdueSorted(overdue), 5),
                        <<get_overdue_lucky_ball(d)>>,
                        "Overdue numbers: Haven't appeared in longer than average")

RecRecentHot(recent_main, recent_lucky) ==
    IF recent_lucky = << >> THEN Raise("IndexError")
    ELSE Recommendation(Take(Firsts(most_common(recent_main, 10)), 5),
                        <<most_common(recent_lucky, 1)[1][1]>>,
                        "Recent hot: Most frequent in last 50 draws")

\* the fifth number taken without looking at the four already selected
RecJackpotSpreadRepeats(main_freq, lucky_freq, recent_main) ==
    LET low_freq == RangeItems(main_freq, 1, 12)
        mid_low_freq == RangeItems(main_freq, 13, 24)
        mid_high_freq == RangeItems(main_freq, 25, 36)
        high_freq == RangeItems(main_freq, 37, 48)
    IN  IF << >> \in {low_freq, mid_low_freq, mid_high_freq, high_freq}
        THEN Raise("ValueError")
        ELSE LET four == <<MaxItem(low_freq)[1], MaxItem(mid_low_freq)[1],
                           MaxItem(mid_high_freq)[1], MaxItem(high_freq)[1]>>
                 selected == four \o Take(Firsts(most_common(recent_main, 20)), 1)
             IN  Recommendation(SortedNums(Take(selected, 5)),
                                <<most_common(lucky_freq, 1)[1][1]>>,
                                "Jackpot spread: Maximum coverage across number ranges")

RecJackpotSpread(main_freq, lucky_freq, recent_main) ==
    LET low_freq == RangeItems(main_freq, 1, 12)
        mid_low_freq == RangeItems(main_freq, 13, 24)
        mid_high_freq == RangeItems(main_freq, 25, 36)
        high_freq == RangeItems(main_freq, 37, 48)
    IN  IF << >> \in {low_freq, mid_low_freq, mid_high_freq, high_freq}
        THEN Raise("ValueError")
        ELSE LET four == <<MaxItem(low_freq)[1], MaxItem(mid_low_freq)[1],
                           MaxItem(mid_high_freq)[1], MaxItem(high_freq)[1]>>
                 fifth == NotIn(Firsts(most_common(recent_main, 20)), four)
                 selected == four \o Take(fifth, 1)
             IN  Recommendation(SortedNums(Take(selected, 5)),
                                <<most_common(lucky_freq, 1)[1][1]>>,
                                "Jackpot spread: Maximum coverage across number ranges")

\* the overdue and recent numbers added without looking at those already selected
RecBalancedRepeats(main_freq, lucky_freq, recent_main, overdue) ==
    LET hot_nums == Firsts(most_common(main_freq, 15))
        overdue_nums == Take(OverdueSorted(overdue), 10)
        recent_nums == Firsts(most_common(recent_main, 10))
        selected == Take(hot_nums, 2) \o Take(overdue_nums, 2) \o Take(recent_nums, 1)
    IN  IF Len(most_common(lucky_freq, 3)) < 2 THEN Raise("IndexError")
        ELSE Recommendation(Take(selected, 5),
                            <<most_common(lucky_freq, 3)[2][1]>>,
                            "Balanced: Mix of hot, overdue, and recent numbers")

RecBalanced(main_freq, lucky_freq, recent_main, overdue) ==
    LET hot_nums == Firsts(most_common(main_freq, 15))
        overdue_nums == Take(OverdueSorted(overdue), 10)
        recent_nums == Firsts(most_common(recent_main, 10))
        s1 == Take(NotIn(hot_nums, << >>), 2)
        s2 == s1 \o Take(NotIn(overdue_nums, s1), 2)
        selected == s2 \o Take(NotIn(recent_nums, s2), 1)
    IN  IF Len(most_common(lucky_freq, 3)) < 2 THEN Raise("IndexError")
        ELSE Recommendation(Take(selected, 5),
                            <<most_common(lucky_freq, 3)[2][1]>>,
                            "Balanced: Mix of hot, overdue, and recent numbers")

generate_recommendations(d, strategy) ==
    LET fa == frequency_analysis(d)
        ra == recent_analysis(d, RecentWindow)
        overdue == get_overdue_numbers(d, DefaultThreshold)
    IN  CASE strategy = "hot" -> RecHot(fa.main, fa.lucky)
          [] strategy = "cold" -> RecCold(fa.main, fa.lucky)
          [] strategy = "overdue" -> RecOverdue(d, overdue)
          [] strategy = "recent_hot" -> RecRecentHot(ra.main, ra.lucky)
          [] strategy = "jackpot_spread" -> RecJackpotSpread(fa.main, fa.lucky, ra.main)
          [] OTHER -> RecBalanced(fa.main, fa.lucky, ra.main, overdue)

(* ------------------------------------------------------ backtest_strategies *)

\* the default of backtest_strategies and the two strategies it leaves out
StrategyLists ==
    { <<"balanced", "hot", "overdue", "recent_hot">>,
      <<"jackpot_spread", "cold">> }

\* test_draws = self.df.head(lookback_draws)
TestDraws(d, lookback_draws) == HeadDf(d, lookback_draws)

\* the off-by-one slice df.iloc[idx:], which keeps the target draw
HistoricalDataWithTarget(d, i) == ILocFrom(d, i)

\* historical_data = self.df.iloc[idx+1:].copy()
HistoricalData(d, i) == ILocFrom(d, i + 1)

\* the floor tested with <= instead of <
MoreThanEnoughHistory(h) == Size(h) > MinHistory

\* not (len(historical_data) < 50)
EnoughHistory(h) == Size(h) >= MinHistory

\* the temporary analyzer taken to be the analyzer itself: the assignment replaces self.df
SelfDfShared(self_df, historical_data) == historical_data

\* self.df after temp_analyzer.df = historical_data: temp_analyzer is a new object, made
\* by __new__, so the assignment leaves the analyzer's own history alone
SelfDf(self_df, historical_data) == self_df

\* the prize of the backtest, in dollars
BacktestPrize(main_matches, lucky_match) ==
    IF main_matches = 5 /\ lucky_match THEN 1000000
    ELSE IF main_matches = 5 THEN 25000
    ELSE IF main_matches = 4 /\ lucky_match THEN 5000
    ELSE IF main_matches = 4 THEN 200
    ELSE IF main_matches = 3 /\ lucky_match THEN 150
    ELSE IF main_matches = 3 THEN 20
    ELSE IF main_matches = 2 /\ lucky_match THEN 25
    ELSE IF main_matches = 2 THEN 3
    ELSE IF main_matches = 1 /\ lucky_match THEN 6
    ELSE IF lucky_match THEN 4
    ELSE 0

\* {'wins': 0, 'total_prize': 0, 'tickets': 0, 'matches_dist': Counter()}
NoResult == [wins |-> 0, total_prize |-> 0, tickets |-> 0, matches_dist |-> << >>]

\* the updates with total_prize overwritten by the prize of the ticket
AccumulateLastPrize(r, main_matches, prize) ==
    [tickets |-> r.tickets + 1,
     total_prize |-> prize,
     matches_dist |-> Inc(r.matches_dist, main_matches),
     wins |-> IF prize > 0 THEN r.wins + 1 ELSE r.wins]

\* the updates with a win counted for every ticket
AccumulateEveryTicketWins(r, main_matches, prize) ==
    [tickets |-> r.tickets + 1,
     total_prize |-> r.total_prize + prize,
     matches_dist |-> Inc(r.matches_dist, main_matches),
     wins |-> r.wins + 1]

\* the four updates of strategy_results[strategy] after one simulated ticket
Accumulate(r, main_matches, prize) ==
    [tickets |-> r.tickets + 1,
     total_prize |-> r.total_prize + prize,
     matches_dist |-> Inc(r.matches_dist, main_matches),
     wins |-> IF prize > 0 THEN r.wins + 1 ELSE r.wins]

\* total_prize - tickets * 2.00
Net(r) == r.total_prize - r.tickets * 2

\* the maximum taken as the last strategy of maximal net result
BestStrategyLastOfTies(strats, results) ==
    strats[CHOOSE k \in DOMAIN strats :
               /\ \A j \in DOMAIN strats : Net(results[strats[j]]) <= Net(results[strats[k]])
               /\ \A j \in DOMAIN strats :
                      j > k => Net(results[strats[j]]) < Net(results[strats[k]])]

\* max(strategy_results.items(), key=net)[0]: the dict lists the strategies in the order
\* given, and max returns the first item of maximal key
BestStrategy(strats, results) ==
    MaxItem([k \in 1..Len(strats) |-> <<strats[k], Net(results[strats[k]])>>])[1]

\* the report loop divides by tickets for every strategy
ReportRaises(strats, results) == \E k \in 1..Len(strats) : results[strats[k]].tickets = 0

(* ------------------------------------------------------------- check_ticket *)

\* Python's None, and a value that is not None
None == << >>

Some(x) == <<x>>

\* the lookup that falls back to the most recent draw when no row has the date
FindDrawingOrLatest(d, drawing_date) ==
    IF SelectSeq(d.rows, LAMBDA r : r.date = drawing_date) = << >>
    THEN Take(d.rows, 1)
    ELSE SelectSeq(d.rows, LAMBDA r : r.date = drawing_date)

\* self.df[self.df['Date'] == pd.to_datetime(drawing_date)]: the rows of that date
FindDrawing(d, drawing_date) == SelectSeq(d.rows, LAMBDA r : r.date = drawing_date)

\* the numbers compared position by position
MainMatchesByPosition(numbers, winning_numbers) ==
    Cardinality({i \in DOMAIN numbers \cap DOMAIN winning_numbers :
                     numbers[i] = winning_numbers[i]})

\* len(set(numbers) & set(winning_numbers))
MainMatches(numbers, winning_numbers) ==
    Cardinality(Range(numbers) \cap Range(winning_numbers))

Tier(prize, prize_description) == [prize |-> prize, prize_description |-> prize_description]

\* the chain with the amounts of the backtest for the two top tiers
TicketPrizeAsBacktest(main_matches, lucky_match) ==
    IF main_matches = 5 /\ lucky_match THEN Tier(1000000, "JACKPOT! $1,000/Day for Life")
    ELSE IF main_matches = 5 THEN Tier(25000, "2nd Prize! $25,000/Year for Life")
    ELSE IF main_matches = 4 /\ lucky_match THEN Tier(5000, "$5,000")
    ELSE IF main_matches = 4 THEN Tier(200, "$200")
    ELSE IF main_matches = 3 /\ lucky_match THEN Tier(150, "$150")
    ELSE IF main_matches = 3 THEN Tier(20, "$20")
    ELSE IF main_matches = 2 /\ lucky_match THEN Tier(25, "$25")
    ELSE IF main_matches = 2 THEN Tier(3, "$3")
    ELSE IF main_matches = 1 /\ lucky_match THEN Tier(6, "$6")
    ELSE IF lucky_match THEN Tier(4, "$4")
    ELSE Tier(0, "No win")

\* the if/elif chain of check_ticket: prize in dollars and prize_description
TicketPrize(main_matches, lucky_match) ==
    IF main_matches = 5 /\ lucky_match THEN Tier(0, "JACKPOT! $1,000/Day for Life")
    ELSE IF main_matches = 5 THEN Tier(0, "2nd Prize! $25,000/Year for Life")
    ELSE IF main_matches = 4 /\ lucky_match THEN Tier(5000, "$5,000")
    ELSE IF main_matches = 4 THEN Tier(200, "$200")
    ELSE IF main_matches = 3 /\ lucky_match THEN Tier(150, "$150")
    ELSE IF main_matches = 3 THEN Tier(20, "$20")
    ELSE IF main_matches = 2 /\ lucky_match THEN Tier(25, "$25")
    ELSE IF main_matches = 2 THEN Tier(3, "$3")
    ELSE IF main_matches = 1 /\ lucky_match THEN Tier(6, "$6")
    ELSE IF lucky_match THEN Tier(4, "$4")
    ELSE Tier(0, "No win")

\* check_ticket returns the pair (result, error)
check_ticket(d, numbers, lucky_ball, drawing_date) ==
    LET drawing == FindDrawing(d, drawing_date)
    IN  IF drawing = << >>
        THEN [result |-> None, error |-> Some("Drawing date not found")]
        ELSE LET winning_numbers == drawing[1].nums
                 winning_lucky == drawing[1].lb
                 main_matches == MainMatches(numbers, winning_numbers)
                 lucky_match == (lucky_ball = winning_lucky)
                 tier == TicketPrize(main_matches, lucky_match)
             IN  [result |-> Some([main_matches |-> main_matches,
                                   lucky_match |-> lucky_match,
                                   prize |-> tier.prize,
                                   prize_description |-> tier.prize_description,
                                   winning_numbers |-> winning_numbers,
                                   winning_lucky |-> winning_lucky,
                                   your_numbers |-> numbers,
                                   your_lucky |-> lucky_ball]),
                  error |-> None]

\* tickets checked: 5, 5 (another order), 4, 3, 2, 1 and 0 numbers of the draw
\* (3,10,22,32,38), and one with repeated numbers
PickedNumbers ==
    { <<3, 10, 22, 32, 38>>, <<38, 32, 22, 10, 3>>, <<3, 10, 22, 32, 47>>,
      <<10, 3, 46, 47, 22>>, <<3, 44, 45, 46, 10>>, <<43, 3, 45, 46, 47>>,
      <<43, 44, 45, 46, 47>>, <<3, 3, 10, 10, 22>> }

PickedLucky == {11, 12}

\* a date on which nothing was drawn
NoDrawDate == 1

\* the dates asked for: the newest draw, the oldest draw, a date without a draw
DrawingDates(d) ==
    {d.rows[p].date : p \in {1, Size(d)} \cap DOMAIN d.rows} \cup {NoDrawDate}

(* ------------------------------------------- reporting a recommendation *)

\* generate_multiple_sets: one set per strategy of strategies[:num_sets]
RECURSIVE SetsUpTo(_, _, _)
SetsUpTo(d, strategies, i) ==
    IF i = 0 THEN [error |-> "none", sets |-> << >>]
    ELSE LET before == SetsUpTo(d, strategies, i - 1)
             r == generate_recommendations(d, strategies[i])
         IN  IF before.error # "none" THEN before
             ELSE IF r.error # "none" THEN [error |-> r.error, sets |-> << >>]
             ELSE [error |-> "none",
                   sets |-> Append(before.sets,
                                   [set_number |-> i,
                                    strategy |-> strategies[i],
                                    numbers |-> SortedNums(r.main_numbers),
                                    lucky_ball |-> r.lucky_ball[1],
                                    reasoning |-> r.reasoning])]

generate_multiple_sets(d, num_sets, strategies) ==
    SetsUpTo(d, strategies, Min(num_sets, Len(strategies)))

\* the strategies generate_multiple_sets uses when none are given
DefaultSets == <<"balanced", "hot", "overdue">>

\* a ticket of the portfolio
Ticket(numbers, lucky_ball, strategy) ==
    [numbers |-> numbers, lucky_ball |-> lucky_ball, strategy |-> strategy]

Failed(e) == [error |-> e, tickets |-> << >>]

\* the while loop of ticket 2: the fifth number is replaced by
\* recent_main.most_common(15)[len(tickets) + 5][0] until the combination is unused; a
\* second pass would assign the same number again and never end
VaryRecentHot(main, recent_main, used) ==
    IF SortedNums(main) \notin used THEN [error |-> "none", main |-> main]
    ELSE IF Len(main) < 5 \/ Len(most_common(recent_main, 15)) < 7
         THEN [error |-> "IndexError", main |-> main]
    ELSE LET varied == [main EXCEPT ![5] = most_common(recent_main, 15)[7][1]]
         IN  IF SortedNums(varied) \in used
             THEN [error |-> "NoReturn", main |-> varied]
             ELSE [error |-> "none", main |-> varied]

\* ticket 5: the three most frequent numbers of 30..48, filled up to five with the most
\* frequent recent numbers not among them
HighNumbers(main_freq, recent_main) ==
    LET high_sorted == Take(Firsts(SortedByValueDesc(RangeItems(main_freq, 30, 48))), 7)
        selected == Take(high_sorted, 3)
        more == NotIn(Firsts(most_common(recent_main, 20)), selected)
    IN  SortedNums(Take(selected \o Take(more, 5 - Len(selected)), 5))

generate_jackpot_coverage(d, num_tickets, budget) ==
    LET max_tickets == budget \div 2
        n == Min(num_tickets, max_tickets)
        fa == frequency_analysis(d)
        ra == recent_analysis(d, RecentWindow)
        rec1 == generate_recommendations(d, "jackpot_spread")
        t1 == <<Ticket(rec1.main_numbers, rec1.lucky_ball[1], "Range Spread")>>
        used1 == {SortedNums(rec1.main_numbers)}
        rec2 == generate_recommendations(d, "recent_hot")
        v2 == VaryRecentHot(rec2.main_numbers, ra.main, used1)
        t2 == Append(t1, Ticket(SortedNums(v2.main), rec2.lucky_ball[1], "Recent Hot"))
        rec3 == generate_recommendations(d, "hot")
        t3 == Append(t2, Ticket(rec3.main_numbers, most_common(fa.lucky, 2)[2][1],
                                "All-Time Hot"))
        rec4 == generate_recommendations(d, "balanced")
        t4 == Append(t3, Ticket(rec4.main_numbers, rec4.lucky_ball[1], "Balanced Mix"))
        t5 == Append(t4, Ticket(HighNumbers(fa.main, ra.main),
                                most_common(fa.lucky, 3)[1][1], "High Numbers"))
    IN  IF rec1.error # "none" THEN Failed(rec1.error)
        ELSE IF n < 2 THEN [error |-> "none", tickets |-> t1]
        ELSE IF rec2.error # "none" THEN Failed(rec2.error)
        ELSE IF v2.error # "none" THEN Failed(v2.error)
        ELSE IF n < 3 THEN [error |-> "none", tickets |-> t2]
        ELSE IF rec3.error # "none" THEN Failed(rec3.error)
        ELSE IF Len(most_common(fa.lucky, 2)) < 2 THEN Failed("IndexError")
        ELSE IF n < 4 THEN [error |-> "none", tickets |-> t3]
        ELSE IF rec4.error # "none" THEN Failed(rec4.error)
        ELSE IF n < 5 THEN [error |-> "none", tickets |-> t4]
        ELSE [error |-> "none", tickets |-> t5]

\* the budget generate_jackpot_coverage takes when none is given
DefaultBudget == 10

\* the calls made: 0 to 5 tickets on the default budget, 5 tickets on a budget of 5
\* and on a budget of 1
CoverageArgs ==
    {[num_tickets |-> n, budget |-> DefaultBudget] : n \in 0..5}
        \cup {[num_tickets |-> 5, budget |-> 5], [num_tickets |-> 5, budget |-> 1]}

\* GET /api/recommendations/<strategy>: the JSON body and the status
get_recommendations(d, strategy) ==
    LET r == generate_recommendations(d, strategy)
    IN  IF r.error # "none"
        THEN [success |-> FALSE, status |-> 400, numbers |-> << >>, lucky_ball |-> << >>]
        ELSE [success |-> TRUE, status |-> 200, numbers |-> r.main_numbers,
              lucky_ball |-> <<r.lucky_ball[1]>>]

\* the record save_ticket appends to the ticket file and returns
SavedTicket(numbers, lucky_ball, strategy, date_played, cost) ==
    [date_played |-> date_played, numbers |-> SortedNums(numbers), lucky_ball |-> lucky_ball,
     strategy |-> strategy, cost |-> cost, result |-> None, winnings |-> 0]

\* the picks saved: a recommendation in the order a strategy gives it, and another
SavedNumbers == { <<22, 3, 10, 32, 38>>, <<43, 3, 45, 46, 47>> }

\* the days tickets are played on: a day between two drawings, the day of a drawing,
\* and the day after the most recent drawing
PlayDates(d) == {3, 4, 2 * Size(d) + 1}

\* the file as save_ticket writes it with every earlier ticket forgotten
OverwriteTickets(tickets, ticket) == <<ticket>>

\* save_ticket: the tickets loaded from the file (none without a file), the new one
\* appended, the list written back
AppendTicket(tickets, ticket) == Append(tickets, ticket)

\* self.df[self.df['Date'] >= play_date].sort_values('Date'): the rows in ascending
\* order of date
NextDrawings(d, play_date) ==
    LET later == SelectSeq(d.rows, LAMBDA r : r.date >= play_date)
    IN  Firsts(SortedByValueAsc([k \in 1..Len(later) |-> <<later[k], later[k].date>>]))

NoneChecked == [results |-> << >>, total_spent |-> 0, total_won |-> 0]

\* one pass of "for i, ticket in enumerate(tickets, 1)"
CheckedTicket(d, acc, ticket) ==
    LET next_drawings == NextDrawings(d, ticket.date_played)
        drawing_date == next_drawings[Len(next_drawings)].date
        checked == check_ticket(d, ticket.numbers, ticket.lucky_ball, drawing_date)
        result == checked.result[1]
    IN  IF next_drawings = << >> \/ checked.result = None THEN acc
        ELSE [results |-> Append(acc.results,
                                 [ticket EXCEPT !.result = Some(result),
                                                !.winnings = result.prize]),
              total_spent |-> acc.total_spent + ticket.cost,
              total_won |-> acc.total_won + result.prize]

RECURSIVE CheckedUpTo(_, _, _)
CheckedUpTo(d, tickets, i) ==
    IF i = 0 THEN NoneChecked
    ELSE CheckedTicket(d, CheckedUpTo(d, tickets, i - 1), tickets[i])

\* check_all_tickets: the list returned and the two totals printed; without a ticket
\* file the empty list
check_all_tickets(d, tickets) == CheckedUpTo(d, tickets, Len(tickets))

(* ------------------------------------------------------------------ state *)

VARIABLES
    df,                 \* self.df of the analyzer: the loaded history
    pc,                 \* "idle", or "loop" inside backtest_strategies
    op,                 \* the method called last
    arg,                \* its argument
    ret,                \* what it returned, or the exception it raised
    idx,                \* backtest_strategies: the loop index
    sk,                 \* backtest_strategies: position of the next strategy at this idx
    strategy_results,   \* backtest_strategies: the accumulators
    rec,                \* backtest_strategies: the last simulated ticket
    best,               \* backtest_strategies: the best strategy printed
    ticket_file         \* the tickets in the ticket file, empty while there is no file

vars == <<df, pc, op, arg, ret, idx, sk, strategy_results, rec, best, ticket_file>>

btvars == <<idx, sk, strategy_results, rec, best>>

\* threshold multipliers, in hundredths
Thresholds == {100, 133, DefaultThreshold, 200}

NoTicket == [idx |-> -1, strategy |-> "", rec |-> Raise("none"), main_matches |-> 0, prize |-> 0]

Init ==
    /\ df \in {Load(c) : c \in Contents}
    /\ pc = "idle"
    /\ op = "__init__"
    /\ arg = << >>
    /\ ret = << >>
    /\ idx = 0
    /\ sk = 1
    /\ strategy_results = << >>
    /\ rec = NoTicket
    /\ best = ""
    /\ ticket_file = << >>

\* the histories on which calls are also made one after another
Replayed == {Load(Pool), Load(<<Pool[1]>> \o LongTail(MinHistory))}

\* the methods that build analyzers, frames or lists of their own while they run
Stateful == {"backtest_strategies", "generate_jackpot_coverage"}

\* the functions of which a second call must return what the first returned
Repeatable ==
    {"frequency_analysis", "recent_analysis", "gap_analysis", "get_overdue_numbers",
     "generate_recommendations"}

\* Every call is made on the analyzer as loaded: no method assigns self.df, so a call
\* made after another one finds the analyzer in the same state.
Fresh == pc = "idle" /\ op = "__init__"

\* On the replayed histories the repeatable functions are also called after a stateful
\* method has returned; the locals of the last backtest stay visible.
Again(name) == pc = "idle" /\ name \in Repeatable /\ op \in Stateful /\ df \in Replayed

Returns(name, a, r) ==
    /\ Fresh \/ Again(name)
    /\ op' = name
    /\ arg' = a
    /\ ret' = r
    /\ UNCHANGED <<df, pc, ticket_file>>
    /\ UNCHANGED btvars

FrequencyAnalysis == Returns("frequency_analysis", << >>, frequency_analysis(df))

RecentAnalysis ==
    \E n \in 0..MaxRecentArg : Returns("recent_analysis", n, recent_analysis(df, n))

GapAnalysis == Returns("gap_analysis", << >>, gap_analysis(df))

GetOverdueNumbers ==
    \E t \in Thresholds : Returns("get_overdue_numbers", t, get_overdue_numbers(df, t))

GenerateRecommendations ==
    \E s \in StrategyNames :
        Returns("generate_recommendations", s, generate_recommendations(df, s))

CheckTicket ==
    \E numbers \in PickedNumbers, lucky_ball \in PickedLucky, drawing_date \in DrawingDates(df) :
        Returns("check_ticket",
                [numbers |-> numbers, lucky_ball |-> lucky_ball, drawing_date |-> drawing_date],
                check_ticket(df, numbers, lucky_ball, drawing_date))

GenerateMultipleSets ==
    \E num_sets \in {1, Len(DefaultSets)} :
        Returns("generate_multiple_sets", num_sets,
                generate_multiple_sets(df, num_sets, DefaultSets))

GenerateJackpotCoverage ==
    \E a \in CoverageArgs :
        Returns("generate_jackpot_coverage", a,
                generate_jackpot_coverage(df, a.num_tickets, a.budget))

\* the route /api/recommendations/<strategy> of the web application
GetRecommendations ==
    \E s \in StrategyNames :
        Returns("get_recommendations", s, get_recommendations(df, s))

\* the ticket file is used on the replayed histories, between any other calls
Ledger == pc = "idle" /\ op \in {"__init__", "save_ticket", "check_all_tickets"} /\ df \in Replayed

\* save_ticket: the file is read if it exists, the ticket appended, the file written;
\* what json.dump writes, json.load reads back unchanged
SaveTicket ==
    \E numbers \in SavedNumbers, date_played \in PlayDates(df) :
        LET ticket == SavedTicket(numbers, 10, "test", date_played, 2)
        IN  /\ Ledger
            /\ Len(ticket_file) < MaxSaved
            /\ ticket_file' = AppendTicket(ticket_file, ticket)
            /\ op' = "save_ticket"
            /\ arg' = [numbers |-> numbers, date_played |-> date_played]
            /\ ret' = ticket
            /\ UNCHANGED <<df, pc>>
            /\ UNCHANGED btvars

\* check_all_tickets reads the file and writes nothing
CheckAllTickets ==
    /\ Ledger
    /\ op' = "check_all_tickets"
    /\ arg' = << >>
    /\ ret' = check_all_tickets(df, ticket_file)
    /\ UNCHANGED <<df, pc, ticket_file>>
    /\ UNCHANGED btvars

\* backtest_strategies up to the loop: the accumulators are created
BacktestStart ==
    \E lookback_draws \in 0..MaxLookback, strategies \in StrategyLists :
        /\ Fresh
        /\ pc' = "loop"
        /\ op' = "backtest_strategies"
        /\ arg' = [lookback_draws |-> lookback_draws, strategies |-> strategies]
        /\ ret' = << >>
        /\ idx' = 0
        /\ sk' = 1
        /\ strategy_results' = [s \in Range(strategies) |-> NoResult]
        /\ rec' = NoTicket
        /\ best' = ""
        /\ UNCHANGED <<df, ticket_file>>

InLoop ==
    /\ pc = "loop"
    /\ idx < Size(TestDraws(df, arg.lookback_draws))

\* if len(historical_data) < 50: continue
BacktestSkip ==
    /\ InLoop
    /\ ~EnoughHistory(HistoricalData(df, idx))
    /\ idx' = idx + 1
    /\ UNCHANGED <<df, pc, op, arg, ret, sk, strategy_results, rec, best, ticket_file>>

\* one pass of "for strategy in strategies" at the index idx
BacktestSimulate ==
    /\ InLoop
    /\ EnoughHistory(HistoricalData(df, idx))
    /\ LET strategy == arg.strategies[sk]
           actual_draw == TestDraws(df, arg.lookback_draws).rows[idx + 1]
           r == generate_recommendations(HistoricalData(df, idx), strategy)
           main_matches == Cardinality(Range(r.main_numbers) \cap Range(actual_draw.nums))
           lucky_match == (r.lucky_ball[1] = actual_draw.lb)
           prize == BacktestPrize(main_matches, lucky_match)
       IN  IF r.error # "none"
           THEN /\ pc' = "idle"
                /\ ret' = [error |-> r.error, results |-> << >>]
                /\ UNCHANGED <<idx, sk, strategy_results, rec>>
           ELSE /\ strategy_results' =
                       [strategy_results EXCEPT
                           ![strategy] = Accumulate(@, main_matches, prize)]
                /\ rec' = [idx |-> idx, strategy |-> strategy, rec |-> r,
                           main_matches |-> main_matches, prize |-> prize]
                /\ IF sk < Len(arg.strategies)
                   THEN sk' = sk + 1 /\ idx' = idx
                   ELSE sk' = 1 /\ idx' = idx + 1
                /\ UNCHANGED <<pc, ret>>
    /\ df' = SelfDf(df, HistoricalData(df, idx))
    /\ UNCHANGED <<op, arg, best, ticket_file>>

\* after the loop: the report, the best strategy, the return
BacktestReport ==
    /\ pc = "loop"
    /\ idx = Size(TestDraws(df, arg.lookback_draws))
    /\ pc' = "idle"
    /\ IF ReportRaises(arg.strategies, strategy_results)
       THEN /\ ret' = [error |-> "ZeroDivisionError", results |-> << >>]
            /\ best' = best
       ELSE /\ ret' = [error |-> "none", results |-> strategy_results]
            /\ best' = BestStrategy(arg.strategies, strategy_results)
    /\ UNCHANGED <<df, op, arg, idx, sk, strategy_results, rec, ticket_file>>

Next ==
    \/ FrequencyAnalysis
    \/ RecentAnalysis
    \/ GapAnalysis
    \/ GetOverdueNumbers
    \/ GenerateRecommendations
    \/ CheckTicket
    \/ GenerateMultipleSets
    \/ GenerateJackpotCoverage
    \/ GetRecommendations
    \/ SaveTicket
    \/ CheckAllTickets
    \/ BacktestStart
    \/ BacktestSkip
    \/ BacktestSimulate
    \/ BacktestReport

Spec == Init /\ [][Next]_vars

(* ------------------------------------------- construction from raw records *)

\* records a CSV file can hold that are no legal draws: a repeated main number, a main
\* number above 48, a main number below 1, a lucky ball above 18
InvalidDraws ==
    { Draw(<<3, 3, 22, 32, 38>>, 11), Draw(<<3, 10, 22, 32, 49>>, 11),
      Draw(<<0, 10, 22, 32, 38>>, 11), Draw(<<3, 10, 22, 32, 38>>, 19) }

RawContents == SeqsUpTo(Range(Pool) \cup InvalidDraws, MaxRawDraws)

\* before the constructor has run there is no history
InitRaw ==
    /\ df = Load(<< >>)
    /\ pc = "idle"
    /\ op = "new"
    /\ arg = << >>
    /\ ret = << >>
    /\ idx = 0
    /\ sk = 1
    /\ strategy_results = << >>
    /\ rec = NoTicket
    /\ best = ""
    /\ ticket_file = << >>

\* __init__ reads the records, converts the dates, sorts and re-indexes; no statement
\* of it looks at the numbers, so it returns for every record list
Construct ==
    \E content \in RawContents :
        /\ op = "new"
        /\ df' = Load(content)
        /\ op' = "__init__"
        /\ arg' = content
        /\ ret' = [error |-> "none"]
        /\ UNCHANGED <<pc, ticket_file>>
        /\ UNCHANGED btvars

NextRaw ==
    \/ Construct
    \/ FrequencyAnalysis
    \/ RecentAnalysis
    \/ GapAnalysis

SpecRaw == InitRaw /\ [][NextRaw]_vars

(* ----------------------------------------------------------------- claims *)

\* the backtest has just simulated a ticket: rec holds it
Simulated == op = "backtest_strategies" /\ rec.idx >= 0

\* legal draws that are no draw of any history loaded
Replacements == {Draw(<<48, 47, 46, 45, 44>>, 18), Draw(<<2, 14, 26, 38, 40>>, 5)}

\* the history with the numbers and the lucky ball of the draw at index j replaced
ReplaceDraw(d, j, x) ==
    [d EXCEPT !.rows[j + 1] = Row(x, d.rows[j + 1].date)]

\* C1: no lookahead (content).  The recommendation scored against the draw at index i
\* is the same when the numbers and lucky ball of any draw at an index <= i (the target
\* or a more recent draw) are replaced by other legal values.
C1_NoLookaheadContent ==
    Simulated =>
        \A j \in 0..rec.idx, x \in Replacements :
            generate_recommendations(HistoricalData(ReplaceDraw(df, j, x), rec.idx),
                                     rec.strategy) = rec.rec

\* a ticket was simulated against a target that is not the most recent draw
C1_Witness == Simulated /\ rec.idx >= 1 /\ rec.rec.error = "none"

\* a history freshly loaded from the given rows: the index is 0..N-1 again
Reloaded(rows) == [off |-> 0, rows |-> rows]

\* C2: no lookahead (removal).  The recommendation scored against a target depends only
\* on the sequence of draws older than the target: it is the same when the draws more
\* recent than the target are removed from the history, and it is what
\* generate_recommendations returns on a freshly loaded history of the older draws.
C2_NoLookaheadRemoval ==
    Simulated =>
        /\ generate_recommendations(
               HistoricalData(Reloaded(Drop(df.rows, rec.idx)), 0), rec.strategy) = rec.rec
        /\ generate_recommendations(
               Reloaded(Drop(df.rows, rec.idx + 1)), rec.strategy) = rec.rec

\* the draws simulated by backtest_strategies(lookback_draws) on a history of n draws
SimulatedIndices(n, lookback_draws) ==
    {i \in 0..(Min(lookback_draws, n) - 1) : n - i - 1 >= 50}

\* the loop of backtest_strategies has run over every index of the lookback window
LoopDone ==
    /\ op = "backtest_strategies"
    /\ idx = Min(arg.lookback_draws, Size(df))

C4_NeverAborts ==
    (op = "backtest_strategies" /\ pc = "idle") =>
        /\ ret.error = "none"
        /\ DOMAIN ret.results = Range(arg.strategies)
        /\ \A s \in Range(arg.strategies) :
               SimulatedIndices(Size(df), arg.lookback_draws) = {} =>
                   /\ ret.results[s].tickets = 0
                   /\ ret.results[s].wins = 0
                   /\ ret.results[s].total_prize = 0

\* C5: for every non-empty history and every strategy name, generate_recommendations
\* returns, without raising, 5 pairwise distinct main numbers in 1..48 and 1 lucky ball
\* in 1..18.
C5_FiveAndOne ==
    (op = "generate_recommendations" /\ arg \in Strategies /\ Size(df) > 0) =>
        /\ ret.error = "none"
        /\ Len(ret.main_numbers) = 5
        /\ Cardinality(Range(ret.main_numbers)) = 5
        /\ Range(ret.main_numbers) \subseteq main_numbers_range
        /\ Len(ret.lucky_ball) = 1
        /\ Range(ret.lucky_ball) \subseteq lucky_ball_range

\* C6: for a strategy name that is none of hot, cold, overdue, recent_hot,
\* jackpot_spread, generate_recommendations raises no error and returns the
\* recommendation that generate_recommendations('balanced') returns on the same
\* (non-empty) history.
C6_UnknownFallsBackToBalanced ==
    (op = "generate_recommendations" /\ arg \notin Strategies /\ Size(df) > 0) =>
        /\ ret.error = "none"
        /\ ret = generate_recommendations(df, "balanced")

\* the number of draws among the first m that contain the main number num
DrawsWith(d, m, num) == Cardinality({p \in 1..m : num \in Range(d.rows[p].nums)})

\* the number of draws among the first m whose lucky ball is lb
DrawsWithLucky(d, m, lb) == Cardinality({p \in 1..m : d.rows[p].lb = lb})

Positive(c) == \A k \in DOMAIN c : c[k][2] \in Nat \ {0}

\* C7: frequency_analysis returns main-number counts that sum to 5 * len(H) and
\* lucky-ball counts that sum to len(H), every stored count a positive integer;
\* recent_analysis(n) returns counts that sum to 5 * min(n, len(H)) and min(n, len(H)),
\* counted over exactly the n most recent draws.
C7_FrequencySums ==
    /\ op = "frequency_analysis" =>
           /\ Total(ret.main) = 5 * Size(df)
           /\ Total(ret.lucky) = Size(df)
           /\ Positive(ret.main) /\ Positive(ret.lucky)
    /\ op = "recent_analysis" =>
           LET m == Min(arg, Size(df))
           IN  /\ Total(ret.main) = 5 * m
               /\ Total(ret.lucky) = m
               /\ Positive(ret.main) /\ Positive(ret.lucky)
               /\ \A num \in main_numbers_range : Get(ret.main, num) = DrawsWith(df, m, num)
               /\ \A lb \in lucky_ball_range : Get(ret.lucky, lb) = DrawsWithLucky(df, m, lb)

\* recent_analysis was called with a window shorter than the history
C7_Witness == op = "recent_analysis" /\ arg > 0 /\ arg < Size(df)

\* the index labels of the draws that contain the main number num
LabelsOf(d, num) == {Label(d, p) : p \in {q \in 1..Size(d) : num \in Range(d.rows[q].nums)}}

SetMin(S) == CHOOSE x \in S : \A y \in S : x <= y

SetMax(S) == CHOOSE x \in S : \A y \in S : x >= y

\* the overdue dict has the key num
IsListed(overdue, num) == \E k \in DOMAIN overdue : overdue[k][1] = num

\* C8: n is in get_overdue_numbers(t) iff n appears in at least two draws (its average
\* gap, the distance between its first and last appearance divided by the number of
\* gaps, is finite) and its current gap, as gap_analysis gives it, exceeds the average
\* gap times t; a number drawn at most once is never included, and the average of an
\* included number is neither infinite nor zero.
C8_OverdueMembership ==
    op = "get_overdue_numbers" =>
        LET ga == gap_analysis(df)
        IN  \A n \in main_numbers_range :
                LET seen == LabelsOf(df, n)
                    spread == SetMax(seen) - SetMin(seen)
                    current == Abs(ga.current_gap[n])
                IN  /\ IsListed(ret, n) <=>
                           /\ Cardinality(seen) >= 2
                           /\ current * (Cardinality(seen) - 1) * 100 > spread * arg
                    /\ Cardinality(seen) <= 1 => ~IsListed(ret, n)
                    /\ IsListed(ret, n) =>
                           IsFinite(ga.avg_gaps[n]) /\ ga.avg_gaps[n][1] > 0

\* some number drawn twice is overdue and some other number drawn twice is not
C8_Witness ==
    /\ op = "get_overdue_numbers"
    /\ \E n, m \in main_numbers_range :
           /\ Cardinality(LabelsOf(df, n)) >= 2 /\ IsListed(ret, n)
           /\ Cardinality(LabelsOf(df, m)) >= 2 /\ ~IsListed(ret, m)

\* C9: every entry of get_overdue_numbers(t) carries current_gap, avg_gap and ratio,
\* and the ratio it reports (rounded to 2 decimals) is strictly greater than t.
C9_ReportedRatioAboveThreshold ==
    op = "get_overdue_numbers" =>
        \A k \in DOMAIN ret :
            /\ DOMAIN ret[k][2] = {"current_gap", "avg_gap", "ratio"}
            /\ ret[k][2].ratio > arg

\* C10: for a number in the history the current gap of gap_analysis, in absolute value,
\* is the index of the most recent draw that contains it (the newest draw has index 0);
\* a number never drawn has current gap len(H).
C10_CurrentGapSinceLastSeen ==
    op = "gap_analysis" =>
        \A n \in main_numbers_range :
            IF LabelsOf(df, n) # {}
            THEN Abs(ret.current_gap[n]) = SetMin(LabelsOf(df, n))
            ELSE ret.current_gap[n] = Size(df)

\* the fixed prize table in dollars, by number of main matches 0..5, with and without
\* the lucky ball; the two top tiers have no fixed amount
PrizeWithLucky == <<4, 6, 25, 150, 5000, 0>>

PrizeWithoutLucky == <<0, 0, 3, 20, 200, 0>>

FixedPrize(main_matches, lucky_match) ==
    IF lucky_match THEN PrizeWithLucky[main_matches + 1]
    ELSE PrizeWithoutLucky[main_matches + 1]

\* check_ticket returned a result
Checked == op = "check_ticket" /\ ret.error = None

\* C11: the prize lookup is total and is the fixed table: for every main_matches in
\* 0..5 and lucky_match, check_ticket gives the jackpot tier with amount 0 for 5+LB, the
\* 2nd-prize tier with amount 0 for 5, and 5000, 200, 150, 20, 25, 3, 6, 4, 0 below; the
\* backtest gives the same amounts except 1,000,000 for 5+LB and 25,000 for 5.
C11_PrizeTable ==
    /\ \A m \in 0..5, l \in BOOLEAN :
           /\ TicketPrize(m, l).prize = FixedPrize(m, l)
           /\ BacktestPrize(m, l) =
                  IF m = 5 THEN (IF l THEN 1000000 ELSE 25000) ELSE TicketPrize(m, l).prize
    /\ Checked =>
           LET r == ret.result[1]
           IN  /\ r.prize = FixedPrize(r.main_matches, r.lucky_match)
               /\ (r.prize_description = "JACKPOT! $1,000/Day for Life")
                      <=> (r.main_matches = 5 /\ r.lucky_match)
               /\ (r.prize_description = "2nd Prize! $25,000/Year for Life")
                      <=> (r.main_matches = 5 /\ ~r.lucky_match)
    /\ Simulated =>
           LET lucky_match == (rec.rec.lucky_ball[1] = df.rows[rec.idx + 1].lb)
           IN  rec.prize = IF rec.main_matches = 5
                           THEN (IF lucky_match THEN 1000000 ELSE 25000)
                           ELSE FixedPrize(rec.main_matches, lucky_match)

\* a ticket with the five numbers and the lucky ball of the draw was checked
C11_Witness ==
    /\ Checked
    /\ ret.result[1].main_matches = 5
    /\ ret.result[1].lucky_match
    /\ ret.result[1].prize = 0

\* the draw of the date asked for
DrawnOn(d, drawing_date) ==
    d.rows[CHOOSE p \in DOMAIN d.rows : d.rows[p].date = drawing_date]

\* C12: a ticket whose five numbers (in any order) and lucky ball are those of the draw
\* has main_matches = 5, lucky_match true and the jackpot tier; main_matches is the size
\* of the intersection of the picked and the winning numbers, whatever their positions,
\* and lies in 0..5.
C12_IdenticalTicketWins ==
    Checked =>
        LET r == ret.result[1]
            drawn == DrawnOn(df, arg.drawing_date)
        IN  /\ r.main_matches =
                   Cardinality({n \in Range(arg.numbers) : \E i \in 1..5 : drawn.nums[i] = n})
            /\ r.main_matches \in 0..5
            /\ r.lucky_match = (arg.lucky_ball = drawn.lb)
            /\ (Range(arg.numbers) = Range(drawn.nums) /\ arg.lucky_ball = drawn.lb) =>
                   /\ r.main_matches = 5
                   /\ r.lucky_match
                   /\ r.prize_description = "JACKPOT! $1,000/Day for Life"
            /\ \A other \in PickedNumbers :
                   Range(other) = Range(arg.numbers) =>
                       check_ticket(df, other, arg.lucky_ball,
                                    arg.drawing_date).result[1].main_matches = r.main_matches

\* the numbers of the draw were picked in another order
C12_Witness ==
    /\ Checked
    /\ arg.numbers # DrawnOn(df, arg.drawing_date).nums
    /\ Range(arg.numbers) = Range(DrawnOn(df, arg.drawing_date).nums)
    /\ arg.lucky_ball = DrawnOn(df, arg.drawing_date).lb

\* some draw of the history has this date
HasDraw(d, drawing_date) == \E p \in DOMAIN d.rows : d.rows[p].date = drawing_date

\* C13: check_ticket with a date that matches no draw returns (None, "Drawing date not
\* found"); with a date that exists it returns a result and a None error.
C13_DateNotFound ==
    op = "check_ticket" =>
        IF HasDraw(df, arg.drawing_date)
        THEN ret.result # None /\ ret.error = None
        ELSE ret.result = None /\ ret.error = Some("Drawing date not found")

\* a non-empty history was asked for a date without a draw
C13_Witness ==
    /\ op = "check_ticket"
    /\ Size(df) > 0
    /\ ~HasDraw(df, arg.drawing_date)
    /\ ret.result = None

\* the number of draws the call computed over: the window for recent_analysis, the
\* whole history for the others
DrawsComputedOver ==
    IF op = "recent_analysis" THEN Min(arg, Size(df)) ELSE Size(df)

\* the call ended with this exception instead of returning
RaisedError(r, e) == "error" \in DOMAIN r /\ r.error = e

\* C14: frequency_analysis, recent_analysis, gap_analysis and get_overdue_numbers over a
\* zero-length history or slice fail with an explicit empty-history error and do not
\* return empty tables.
C14_EmptyHistoryFails ==
    ( /\ op \in {"frequency_analysis", "recent_analysis", "gap_analysis",
                 "get_overdue_numbers"}
      /\ DrawsComputedOver = 0 ) =>
        RaisedError(ret, "EmptyHistoryError")

\* a legal draw: 5 pairwise distinct main numbers in 1..48 and a lucky ball in 1..18
ValidDraw(r) ==
    /\ Len(r.nums) = 5
    /\ Cardinality(Range(r.nums)) = 5
    /\ Range(r.nums) \subseteq main_numbers_range
    /\ r.lb \in lucky_ball_range

\* C15: building the history from a record list with a repeated main number, a main
\* number outside 1..48 or a lucky ball outside 1..18 fails with a data error, so every
\* draw of a constructed history is legal and no statistical function runs over an
\* illegal draw.
C15_InvalidDrawRejected ==
    /\ (op = "__init__" /\ \E p \in DOMAIN arg : ~ValidDraw(arg[p])) =>
           RaisedError(ret, "DataError")
    /\ op \in {"frequency_analysis", "recent_analysis", "gap_analysis"} =>
           \A p \in DOMAIN df.rows : ValidDraw(df.rows[p])

\* what the function o returns for the argument a on the history d
ResultOf(o, a, d) ==
    CASE o = "frequency_analysis" -> frequency_analysis(d)
      [] o = "recent_analysis" -> recent_analysis(d, a)
      [] o = "gap_analysis" -> gap_analysis(d)
      [] o = "get_overdue_numbers" -> get_overdue_numbers(d, a)
      [] o = "generate_recommendations" -> generate_recommendations(d, a)

PositionOf(strats, s) == CHOOSE k \in DOMAIN strats : strats[k] = s

\* the indices at which a ticket of the strategy s has been simulated so far
TicketsDone(s) ==
    {i \in 0..(idx - 1) : Size(df) - i - 1 >= 50}
        \cup (IF PositionOf(arg.strategies, s) < sk THEN {idx} ELSE {})

\* the accumulators of one strategy are consistent with each other
Consistent(r, s) ==
    /\ r.tickets = Cardinality(TicketsDone(s))
    /\ Total(r.matches_dist) = r.tickets
    /\ \A k \in DOMAIN r.matches_dist :
           r.matches_dist[k][1] \in 0..5 /\ r.matches_dist[k][2] > 0
    /\ r.wins \in 0..r.tickets
    /\ r.wins = 0 => r.total_prize = 0
    /\ r.total_prize >= 4 * r.wins

\* from r to q exactly the ticket (main_matches, prize) was added
AddsTicket(r, q, main_matches, prize) ==
    /\ q.tickets = r.tickets + 1
    /\ q.total_prize = r.total_prize + prize
    /\ q.wins = r.wins + (IF prize > 0 THEN 1 ELSE 0)
    /\ \A k \in 0..5 :
           Get(q.matches_dist, k) =
               Get(r.matches_dist, k) + (IF k = main_matches THEN 1 ELSE 0)

\* one step inside the loop of the backtest
LoopStep ==
    /\ op = "backtest_strategies" /\ op' = "backtest_strategies"
    /\ pc = "loop"

\* C17: at every point of the backtest loop and at its end, for each strategy the
\* match_distribution counts (keys in 0..5) sum to tickets_played, wins is the number of
\* simulated tickets with a prize > 0 (so wins <= tickets_played) and total_prize the sum
\* of their prizes: each simulated ticket adds 1 ticket, its prize, 1 to the count of its
\* main_matches and 1 win iff its prize is > 0, nothing else changes, and no accumulator
\* ever decreases.
C17_Accumulators ==
    /\ [](op = "backtest_strategies" =>
              \A s \in Range(arg.strategies) : Consistent(strategy_results[s], s))
    /\ [][LoopStep =>
              \A s \in Range(arg.strategies) :
                  LET r == strategy_results[s]
                      q == strategy_results'[s]
                  IN  /\ IF rec' # rec /\ rec'.strategy = s
                         THEN AddsTicket(r, q, rec'.main_matches, rec'.prize)
                         ELSE q = r
                      /\ q.tickets >= r.tickets /\ q.wins >= r.wins
                      /\ q.total_prize >= r.total_prize
                      /\ \A k \in 0..5 :
                             Get(q.matches_dist, k) >= Get(r.matches_dist, k)]_vars

\* in the loop, a strategy has played a winning and a losing ticket
C17_Witness ==
    /\ op = "backtest_strategies"
    /\ \E s \in Range(arg.strategies) :
           /\ strategy_results[s].wins > 0
           /\ strategy_results[s].wins < strategy_results[s].tickets
           /\ Len(strategy_results[s].matches_dist) >= 2

\* an accumulator read as numbers and a mapping, without the order of its Counter keys
Summary(r) ==
    [tickets |-> r.tickets, wins |-> r.wins, total_prize |-> r.total_prize,
     dist |-> [k \in 0..5 |-> Get(r.matches_dist, k)]]

NoTickets == [tickets |-> 0, wins |-> 0, total_prize |-> 0, dist |-> [k \in 0..5 |-> 0]]

\* merging two accumulators: counts and prizes summed
Merge(a, b) ==
    [tickets |-> a.tickets + b.tickets, wins |-> a.wins + b.wins,
     total_prize |-> a.total_prize + b.total_prize,
     dist |-> [k \in 0..5 |-> a.dist[k] + b.dist[k]]]

\* the simulation of the pair (i, s) on its own: one ticket
PairResult(d, i, s) ==
    LET r == generate_recommendations(ILocFrom(d, i + 1), s)
        main_matches == Cardinality(Range(r.main_numbers) \cap Range(d.rows[i + 1].nums))
        prize == BacktestPrize(main_matches, r.lucky_ball[1] = d.rows[i + 1].lb)
    IN  [tickets |-> 1, wins |-> IF prize > 0 THEN 1 ELSE 0, total_prize |-> prize,
         dist |-> [k \in 0..5 |-> IF k = main_matches THEN 1 ELSE 0]]

RECURSIVE MergeLeft(_, _, _)
\* ((t[order[1]] + t[order[2]]) + ...) up to position k
MergeLeft(t, order, k) ==
    IF k = 0 THEN NoTickets ELSE Merge(MergeLeft(t, order, k - 1), t[order[k]])

RECURSIVE MergeRight(_, _, _)
\* t[order[k]] + (t[order[k+1]] + (...))
MergeRight(t, order, k) ==
    IF k > Len(order) THEN NoTickets ELSE Merge(t[order[k]], MergeRight(t, order, k + 1))

\* the orders in which the indices of I can be taken
Orders(I) ==
    {o \in [1..Cardinality(I) -> I] : \A j, k \in DOMAIN o : o[j] = o[k] => j = k}

\* C18: the final results do not depend on the order in which the (index, strategy)
\* pairs are simulated and accumulated: for every strategy, merging the results of its
\* pairs, each simulated on its own, by summing counts and prizes in any order and any
\* grouping gives the tickets_played, wins, total_prize and match_distribution of the
\* sequential loop; the merged value is computed from the history, the lookback and the
\* strategy alone, whatever other strategies are configured.
C18_OrderIndependent ==
    LoopDone =>
        \A s \in Range(arg.strategies) :
            LET I == SimulatedIndices(Size(df), arg.lookback_draws)
                t == [i \in I |-> PairResult(df, i, s)]
            IN  \A o \in Orders(I) :
                    /\ MergeLeft(t, o, Len(o)) = Summary(strategy_results[s])
                    /\ MergeRight(t, o, 1) = Summary(strategy_results[s])

\* the loop is over: a strategy played several tickets, with different outcomes
C18_Witness ==
    /\ LoopDone
    /\ pc = "idle"
    /\ \E s \in Range(arg.strategies) :
           /\ strategy_results[s].tickets >= 2
           /\ strategy_results[s].wins >= 1
           /\ Len(strategy_results[s].matches_dist) >= 2

\* the backtest returned its results
Reported == op = "backtest_strategies" /\ pc = "idle" /\ ret.error = "none"

\* total_prize - tickets_played * 2.00 of the strategy at position k
NetResult(k) ==
    ret.results[arg.strategies[k]].total_prize - 2 * ret.results[arg.strategies[k]].tickets

\* C19: after all indices are processed the strategy reported as best has a net result
\* (total_prize - tickets_played * 2.00) greater than or equal to that of every other
\* configured strategy, and among several strategies of highest net result it is the
\* one listed first.
C19_BestStrategy ==
    Reported =>
        /\ best \in Range(arg.strategies)
        /\ LET b == PositionOf(arg.strategies, best)
           IN  \A k \in DOMAIN arg.strategies :
                   /\ NetResult(b) >= NetResult(k)
                   /\ k < b => NetResult(k) < NetResult(b)

\* two strategies tie for the highest net result and the first listed does worse
C19_Witness ==
    /\ Reported
    /\ \E j, k \in DOMAIN arg.strategies :
           /\ j < k
           /\ best = arg.strategies[j]
           /\ NetResult(j) = NetResult(k)
           /\ NetResult(1) < NetResult(j)

\* strictly ascending order
Ascending(nums) == \A i \in 1..(Len(nums) - 1) : nums[i] < nums[i + 1]

\* C20: wherever the main numbers of a recommendation are reported or stored (the sets
\* of generate_multiple_sets, every ticket of generate_jackpot_coverage, the response
\* of /api/recommendations, the records of save_ticket) they are in strictly ascending
\* order, whatever order the strategy produced them in.
C20_ReportedAscending ==
    /\ (op = "generate_multiple_sets" /\ ret.error = "none") =>
           \A k \in DOMAIN ret.sets : Ascending(ret.sets[k].numbers)
    /\ (op = "generate_jackpot_coverage" /\ ret.error = "none") =>
           \A k \in DOMAIN ret.tickets : Ascending(ret.tickets[k].numbers)
    /\ (op = "get_recommendations" /\ ret.success) => Ascending(ret.numbers)
    /\ op = "save_ticket" =>
           /\ Ascending(ret.numbers)
           /\ \A k \in DOMAIN ticket_file : Ascending(ticket_file[k].numbers)

\* Every recommendation of strategy s that was returned satisfies P(history, result):
\* the one a direct call returned for self.df, and the last one the backtest obtained,
\* made on the history that follows the target draw.
Recommended(s, P(_, _)) ==
    /\ (op = "generate_recommendations" /\ arg = s /\ ret.error = "none") => P(df, ret)
    /\ (rec.idx >= 0 /\ rec.strategy = s) => P(HistoricalData(df, rec.idx), rec.rec)

\* no repeated element
Distinct(nums) == Cardinality(Range(nums)) = Len(nums)

\* the pick is made of m numbers of largest count among the first w draws of h, and
\* the lucky ball has the largest lucky-ball count among them
TopOfWindow(h, w, r) ==
    LET pick == Range(r.main_numbers)
    IN  /\ Len(r.main_numbers) = NumbersPerDraw
        /\ Distinct(r.main_numbers)
        /\ pick \subseteq main_numbers_range
        /\ \A n \in pick : \A m \in main_numbers_range \ pick :
               DrawsWith(h, w, m) <= DrawsWith(h, w, n)
        /\ Len(r.lucky_ball) = 1
        /\ \A lb \in lucky_ball_range :
               DrawsWithLucky(h, w, lb) <= DrawsWithLucky(h, w, r.lucky_ball[1])

HotIsTop(h, r) == TopOfWindow(h, Size(h), r)

RecentHotIsTop(h, r) == TopOfWindow(h, Min(RecentWindow, Size(h)), r)

\* C21: the hot strategy returns 5 numbers such that no number outside the pick was
\* drawn more often in the whole history than a number inside it, and a lucky ball of
\* maximal count; recent_hot does the same with the counts of the 50 most recent draws
\* of the history it is given (all of them when there are fewer).
C21_HotPicks ==
    /\ Recommended("hot", HotIsTop)
    /\ Recommended("recent_hot", RecentHotIsTop)
    /\ (op = "generate_recommendations" /\ arg \in {"hot", "recent_hot"} /\ Size(df) > 0) =>
           ret.error = "none"

\* a recent_hot pick returned on a history longer than the window, for which the counts
\* of the whole history would not do, and a hot pick returned on the same kind of history
C21_Witness ==
    /\ op = "generate_recommendations"
    /\ ret.error = "none"
    /\ Size(df) > RecentWindow
    /\ \/ arg = "recent_hot" /\ ~HotIsTop(df, ret)
       \/ arg = "hot" /\ ~RecentHotIsTop(df, ret)

\* the pick is made of 5 numbers of smallest count over the whole legal range, a number
\* never drawn counting 0, and no lucky ball of the legal range has a smaller count
ColdIsBottom(h, r) ==
    LET pick == Range(r.main_numbers)
    IN  /\ Len(r.main_numbers) = NumbersPerDraw
        /\ \A n \in pick : \A m \in main_numbers_range \ pick :
               DrawsWith(h, Size(h), m) >= DrawsWith(h, Size(h), n)
        /\ \A lb \in lucky_ball_range :
               DrawsWithLucky(h, Size(h), lb) >= DrawsWithLucky(h, Size(h), r.lucky_ball[1])

\* C22: the cold strategy returns the bottom 5 of the legal range by overall frequency:
\* no number of 1..48 outside the pick was drawn less often (never drawn counting as 0)
\* than a number inside it, and no lucky ball of 1..18 less often than the one chosen.
C22_ColdPicks == Recommended("cold", ColdIsBottom)

\* the entry of num in the overdue dict
EntryOf(overdue, num) == overdue[CHOOSE k \in DOMAIN overdue : overdue[k][1] = num][2]

\* current_gap / avg_gap of num is larger than that of other, on the gaps of h
LargerRatio(h, num, other) ==
    LET ga == gap_analysis(h)
        a == ga.avg_gaps[num]
        b == ga.avg_gaps[other]
    IN  Abs(ga.current_gap[num]) * a[2] * b[1] > Abs(ga.current_gap[other]) * b[2] * a[1]

\* the pick is the head of the overdue numbers by ratio
OverdueIsTop(h, r) ==
    LET overdue == get_overdue_numbers(h, DefaultThreshold)
        pick == Range(r.main_numbers)
        listed == {overdue[k][1] : k \in DOMAIN overdue}
    IN  /\ Distinct(r.main_numbers)
        /\ pick \subseteq listed
        /\ \A k \in 1..(Len(r.main_numbers) - 1) :
               EntryOf(overdue, r.main_numbers[k]).ratio
                   >= EntryOf(overdue, r.main_numbers[k + 1]).ratio
        /\ \A n \in pick : \A m \in listed \ pick :
               /\ EntryOf(overdue, m).ratio <= EntryOf(overdue, n).ratio
               /\ ~LargerRatio(h, m, n)
        /\ Len(r.main_numbers) <= NumbersPerDraw
        /\ Len(r.main_numbers) < NumbersPerDraw <=> Cardinality(listed) < NumbersPerDraw

\* C23: the overdue strategy returns the overdue entries in descending order of ratio,
\* cut to the first 5: every returned number is in get_overdue_numbers(1.5), no overdue
\* number left out has a larger ratio current_gap / avg_gap than a returned one, and the
\* pick has fewer than 5 numbers exactly when fewer than 5 numbers are overdue.
C23_OverduePicks == Recommended("overdue", OverdueIsTop)

\* the position (1 = most recent) of the most recent draw of h with lucky ball lb
MostRecentLucky(h, lb) == SetMin({p \in 1..Size(h) : h.rows[p].lb = lb})

LuckyDrawn(h) == {h.rows[p].lb : p \in 1..Size(h)}

\* the lucky ball of the pick is the one whose most recent draw is the oldest, and the
\* same ball is chosen on the same rows indexed from 0
OverdueLuckyIsOldest(h, r) ==
    /\ Len(r.lucky_ball) = 1
    /\ r.lucky_ball[1] \in LuckyDrawn(h)
    /\ \A lb \in LuckyDrawn(h) : MostRecentLucky(h, lb) <= MostRecentLucky(h, r.lucky_ball[1])
    /\ get_overdue_lucky_ball(Reloaded(h.rows)) = r.lucky_ball[1]

\* C24: the lucky ball of the overdue strategy is the one with the largest current gap:
\* of every lucky ball only the most recent appearance counts, and no lucky ball that
\* appears in the history was drawn less recently than the chosen one; the choice is
\* the same on a history indexed from 0 and on a backtest suffix that keeps its labels.
C24_OverdueLuckyBall == Recommended("overdue", OverdueLuckyIsOldest)

\* a backtest ticket of the overdue strategy on a suffix whose labels start above 0 and
\* in which the chosen lucky ball was drawn more than once
C24_Witness ==
    /\ rec.idx >= 1
    /\ rec.strategy = "overdue"
    /\ LET h == HistoricalData(df, rec.idx)
       IN  /\ h.off > 0
           /\ Cardinality({p \in 1..Size(h) : h.rows[p].lb = rec.rec.lucky_ball[1]}) > 1

\* the four sub-ranges of jackpot_spread
SubRanges == {1..12, 13..24, 25..36, 37..48}

\* one number of the pick is the most drawn of the recent window outside the other
\* four, and the other four hold a most drawn number of every sub-range
SpreadIsTop(h, r) ==
    LET pick == Range(r.main_numbers)
        w == Min(RecentWindow, Size(h))
    IN  /\ Len(r.main_numbers) = NumbersPerDraw
        /\ Ascending(r.main_numbers)
        /\ pick \subseteq main_numbers_range
        /\ \E fifth \in pick :
               LET four == pick \ {fifth}
               IN  /\ \A Q \in SubRanges :
                          \E n \in four \cap Q :
                              \A m \in Q : DrawsWith(h, Size(h), m) <= DrawsWith(h, Size(h), n)
                   /\ \A m \in main_numbers_range \ four :
                          DrawsWith(h, w, m) <= DrawsWith(h, w, fifth)
        /\ Len(r.lucky_ball) = 1
        /\ \A lb \in lucky_ball_range :
               DrawsWithLucky(h, Size(h), lb) <= DrawsWithLucky(h, Size(h), r.lucky_ball[1])

\* C25: the jackpot_spread strategy returns, in ascending order, 5 distinct numbers that
\* hold for each of the sub-ranges 1-12, 13-24, 25-36, 37-48 a number of maximal overall
\* frequency within it, plus the most frequent number of the recent 50-draw window that
\* is not among those four; its lucky ball is the most frequent overall.
C25_JackpotSpread == Recommended("jackpot_spread", SpreadIsTop)

\* a jackpot_spread pick returned on a history longer than the window, in which the
\* most drawn number of the window is one of the four and so cannot be the fifth
C25_Witness ==
    /\ op = "generate_recommendations"
    /\ arg = "jackpot_spread"
    /\ ret.error = "none"
    /\ Size(df) > RecentWindow
    /\ most_common(recent_analysis(df, RecentWindow).main, 1)[1][1] \in Range(ret.main_numbers)
    /\ \E m \in main_numbers_range \ Range(ret.main_numbers) :
           DrawsWith(df, Size(df), m) > 1

\* the numbers of the top-10 overdue list (by stored ratio) of h
TopOverdue(h) == Range(Take(OverdueSorted(get_overdue_numbers(h, DefaultThreshold)), 10))

\* the pick is two most drawn numbers, then up to two overdue numbers of largest ratio
\* outside them, then the most drawn number of the recent window outside those
BalancedIsMix(h, r) ==
    LET main == r.main_numbers
        n == Len(main)
        w == Min(RecentWindow, Size(h))
        overdue == get_overdue_numbers(h, DefaultThreshold)
        hot == {main[1], main[2]}
        taken == {main[k] : k \in 3..(n - 1)}
        free == TopOverdue(h) \ hot
    IN  /\ n \in 3..5
        /\ Distinct(main)
        /\ \A m \in main_numbers_range :
               DrawsWith(h, Size(h), m) <= DrawsWith(h, Size(h), main[1])
        /\ \A m \in main_numbers_range \ {main[1]} :
               DrawsWith(h, Size(h), m) <= DrawsWith(h, Size(h), main[2])
        /\ taken \subseteq free
        /\ \A k \in 3..(n - 2) :
               EntryOf(overdue, main[k]).ratio >= EntryOf(overdue, main[k + 1]).ratio
        /\ \A t \in taken : \A m \in free \ taken :
               EntryOf(overdue, m).ratio <= EntryOf(overdue, t).ratio
        /\ \A m \in main_numbers_range \ (hot \cup taken) :
               DrawsWith(h, w, m) <= DrawsWith(h, w, main[n])
        /\ n = 5 <=> Cardinality(free) >= 2
        /\ n = 3 <=> free = {}
        /\ Len(r.lucky_ball) = 1
        /\ Cardinality({lb \in lucky_ball_range :
               DrawsWithLucky(h, Size(h), lb) > DrawsWithLucky(h, Size(h), r.lucky_ball[1])}) <= 1
        /\ \E lb \in lucky_ball_range \ {r.lucky_ball[1]} :
               DrawsWithLucky(h, Size(h), lb) >= DrawsWithLucky(h, Size(h), r.lucky_ball[1])

FirstMet(h, w, num) ==
    SetMin({(x[1] - 1) * NumbersPerDraw + x[2] :
               x \in {y \in (1..w) \X (1..NumbersPerDraw) : h.rows[y[1]].nums[y[2]] = num}})

\* num ranks before other in a ranking by count over the first w draws, descending
\* (sign = 1) or ascending (sign = -1), equal counts in the order first met
RanksBefore(h, w, sign, num, other) ==
    \/ sign * DrawsWith(h, w, num) > sign * DrawsWith(h, w, other)
    \/ /\ DrawsWith(h, w, num) = DrawsWith(h, w, other)
       /\ FirstMet(h, w, num) < FirstMet(h, w, other)

\* the pick is the head of that ranking of the numbers drawn in the first w draws
HeadOfRanking(h, w, sign, r) ==
    LET main == r.main_numbers
        drawn == {m \in main_numbers_range : DrawsWith(h, w, m) > 0}
    IN  /\ \A k \in 1..(Len(main) - 1) : RanksBefore(h, w, sign, main[k], main[k + 1])
        /\ \A m \in drawn \ Range(main) : RanksBefore(h, w, sign, main[Len(main)], m)

HotTies(h, r) == HeadOfRanking(h, Size(h), 1, r)

RecentHotTies(h, r) == HeadOfRanking(h, Min(RecentWindow, Size(h)), 1, r)

ColdTies(h, r) == HeadOfRanking(h, Size(h), -1, r)

\* among overdue numbers of equal stored ratio the smaller number ranks first
OverdueTies(h, r) ==
    LET main == r.main_numbers
        overdue == get_overdue_numbers(h, DefaultThreshold)
        listed == {overdue[k][1] : k \in DOMAIN overdue}
        Before(n, m) == \/ EntryOf(overdue, n).ratio > EntryOf(overdue, m).ratio
                        \/ /\ EntryOf(overdue, n).ratio = EntryOf(overdue, m).ratio
                           /\ n < m
    IN  /\ \A k \in 1..(Len(main) - 1) : Before(main[k], main[k + 1])
        /\ \A m \in listed \ Range(main) : main # << >> /\ Before(main[Len(main)], m)

\* of every sub-range the pick holds the smallest of its most drawn numbers
SpreadTies(h, r) ==
    \A Q \in SubRanges :
        \E n \in Range(r.main_numbers) \cap Q :
            \A m \in Q \ {n} :
                \/ DrawsWith(h, Size(h), m) < DrawsWith(h, Size(h), n)
                \/ DrawsWith(h, Size(h), m) = DrawsWith(h, Size(h), n) /\ n < m

\* the same draws in the same order, indexed from 0, give the same recommendation
SameOnReload(h, r) ==
    \A s \in Strategies :
        (rec.idx >= 0 /\ rec.strategy = s /\ r = rec.rec) =>
            generate_recommendations(Reloaded(h.rows), s) = r

\* C27: recommendations are a deterministic function of the ordered history with ties
\* resolved by one fixed rule: among numbers of equal count hot, recent_hot and cold
\* rank first the number met first when the draws are scanned most recent first and
\* each draw from position 1 to 5; among equal overdue ratios and equal frequencies
\* within a sub-range the smaller number ranks first; two histories with the same
\* draws in the same order always give the same pick.
C27_DeterministicTies ==
    /\ Recommended("hot", HotTies)
    /\ Recommended("recent_hot", RecentHotTies)
    /\ Recommended("cold", ColdTies)
    /\ Recommended("overdue", OverdueTies)
    /\ Recommended("jackpot_spread", SpreadTies)
    /\ rec.idx >= 0 => SameOnReload(HistoricalData(df, rec.idx), rec.rec)

\* the positions of the tickets of the file that have a drawing on or after their play date
Scorable(d, tickets) ==
    {k \in DOMAIN tickets : \E p \in DOMAIN d.rows : d.rows[p].date >= tickets[k].date_played}

\* the date of the next drawing on or after play_date: the earliest such date
NextDrawingDate(d, play_date) ==
    SetMin({d.rows[p].date : p \in {q \in DOMAIN d.rows : d.rows[q].date >= play_date}})

\* the k-th smallest element of a set of numbers
RECURSIVE Kth(_, _)
Kth(S, k) == IF k = 1 THEN SetMin(S) ELSE Kth(S \ {SetMin(S)}, k - 1)

\* C28: check_all_tickets scores each saved ticket against the next drawing on or after
\* its play date, the draw of earliest date >= date_played; a ticket with no draw on or
\* after its play date is skipped and adds nothing to the results or to the totals.
C28_NextDrawingScored ==
    op = "check_all_tickets" =>
        LET scorable == Scorable(df, ticket_file)
            n == Cardinality(scorable)
            Scored(j) ==
                LET ticket == ticket_file[Kth(scorable, j)]
                IN  check_ticket(df, ticket.numbers, ticket.lucky_ball,
                                 NextDrawingDate(df, ticket.date_played)).result
        IN  /\ Len(ret.results) = n
            /\ \A j \in 1..n :
                   /\ ret.results[j].result = Scored(j)
                   /\ ret.results[j].winnings = Scored(j)[1].prize
                   /\ ret.results[j].numbers = ticket_file[Kth(scorable, j)].numbers
                   /\ ret.results[j].date_played = ticket_file[Kth(scorable, j)].date_played
            /\ ret.total_spent = SumSeq([j \in 1..n |-> ticket_file[Kth(scorable, j)].cost])
            /\ ret.total_won = SumSeq([j \in 1..n |-> Scored(j)[1].prize])

\* a record as save_ticket leaves it: numbers ascending, not yet checked
Unchecked(t) == Ascending(t.numbers) /\ t.result = None /\ t.winnings = 0

\* the last record of the file is the ticket of the call a
RecordOf(t, a) ==
    /\ Unchecked(t)
    /\ Len(t.numbers) = Len(a.numbers)
    /\ Range(t.numbers) = Range(a.numbers)
    /\ t.date_played = a.date_played

\* C29: the ticket ledger is append-only.  After any sequence of save_ticket calls on
\* one ticket file, with check_all_tickets calls in between, the file holds the saved
\* tickets in call order, each with its numbers ascending, result None and winnings 0:
\* a save_ticket adds exactly one record, the one of its call, and leaves the earlier
\* records as they are, and no other call, check_all_tickets included, changes the file.
C29_LedgerAppendOnly ==
    /\ [](\A k \in DOMAIN ticket_file : Unchecked(ticket_file[k]))
    /\ [][ IF op' = "save_ticket"
           THEN /\ Len(ticket_file') = Len(ticket_file) + 1
                /\ SubSeq(ticket_file', 1, Len(ticket_file)) = ticket_file
                /\ RecordOf(ticket_file'[Len(ticket_file')], arg')
                /\ ret' = ticket_file'[Len(ticket_file')]
           ELSE ticket_file' = ticket_file ]_vars

\* tickets of a file with two records, saved in an order a strategy gave, have been
\* checked and scored
C29_Witness ==
    /\ op = "check_all_tickets"
    /\ Len(ticket_file) = MaxSaved
    /\ Len(ret.results) = MaxSaved
    /\ ticket_file[1] # ticket_file[2]

\* C30: generate_jackpot_coverage never spends more than the budget: for every budget
\* >= 0 and requested num_tickets >= 0 it returns at most min(num_tickets,
\* floor(budget / 2.00)) tickets, so the total cost at 2.00 a ticket does not exceed the
\* budget and the remaining amount reported is not negative.
C30_WithinBudget ==
    (op = "generate_jackpot_coverage" /\ ret.error = "none") =>
        /\ Len(ret.tickets) <= Min(arg.num_tickets, arg.budget \div 2)
        /\ Len(ret.tickets) * 2 <= arg.budget
        /\ arg.budget - Len(ret.tickets) * 2 >= 0

====
